---- MODULE Spec2Model ----
(***************************************************************************)
(* Model of evaluation/2-benchmark-serving/benchmark-serving.py: the       *)
(* trace-driven request replayer (task), the SLO evaluator                 *)
(* (evaluate_request) and the driver (main).                               *)
(*                                                                         *)
(* The clock `now` stands for time.perf_counter(), kept in milliseconds    *)
(* (the code multiplies the difference of two readings by 1000 at line 37  *)
(* and divides the wait by 1000 at line 40).  Time may pass between any    *)
(* two steps (Tick).  A task is one asyncio task; it gives up control only *)
(* at an await, so each task action runs from one await to the next.       *)
(***************************************************************************)
EXTENDS Integers, Sequences, FiniteSets, TLC

(* ------------------------------ bounds -------------------------------- *)
\* Largest emission_time_ms of a record.
MaxEmit == 1
\* SLO evaluator inputs: most tokens of a persisted result, largest gap
\* between two consecutive timestamps.
MaxTokens == 3
MaxGap == 2

\* The trace file holds no record, one record, or two (two tasks run
\* concurrently).
TraceLengths == {0, 1, 2}

\* The reading of perf_counter() when the module is imported (its origin is
\* arbitrary), and the last reading modelled: every emission time falls due
\* before it.
PerfOrigin == MaxEmit
MaxTime == PerfOrigin + MaxEmit + 1

\* "Not yet assigned" for a timestamp, and Python's None for an object.
Unset == 0 - 1
None == [kind |-> "None"]

\* A task's ClientSession (line 44): how many sessions the task has
\* entered so far, and whether it is inside the with block of one.
NoSession == [acquired |-> 0, open |-> FALSE]
\* Entering the with block of line 44, and leaving it (by the break of line
\* 64, by an exception, or by the cancellation of the task).
OpenSession(s) == [acquired |-> s.acquired + 1, open |-> TRUE]
CloseSession(s) == [s EXCEPT !.open = FALSE]
\* Lines 44-46, the session an attempt is sent on: the with block is entered
\* before the loop, so the first attempt enters it and every later one is
\* inside it (SessionOfAttemptFresh: the with block inside the loop, entered
\* for every attempt).
SessionOfAttemptFresh(s) == OpenSession(s)
SessionOfAttempt(s) == IF s.open THEN s ELSE OpenSession(s)

\* args.output before and after lines 129-130.
NoFile == [written |-> FALSE, content |-> <<>>]
Dumped(results) == [written |-> TRUE, content |-> results]

(* ------------------------------ inputs -------------------------------- *)
\* What a record carries besides its emission time.
Shapes ==
    { [prompt |-> "pa", input_length |-> 1, output_length |-> 1, slo_ratio |-> 1],
      [prompt |-> "pb", input_length |-> 2, output_length |-> 2, slo_ratio |-> 2] }

Records ==
    { [emission_time_ms |-> e, prompt |-> s.prompt, input_length |-> s.input_length,
       output_length |-> s.output_length, slo_ratio |-> s.slo_ratio] :
         e \in 0..MaxEmit, s \in Shapes }

Traces == UNION { [1..k -> Records] : k \in TraceLengths }

\* The keys main reads from every record (lines 114-118).
RequiredFields ==
    {"emission_time_ms", "prompt", "input_length", "output_length", "slo_ratio"}

\* Records json.load accepts and that are not well formed: one that lacks a
\* required key, and one in which the JSON value of a numeric field is a
\* string.  Such a record names the fields that hold a string in `strings`
\* (the number written under the field is then a placeholder nothing reads).
StringFields == {"emission_time_ms", "input_length"}

MalformedRecords ==
    { [f \in RequiredFields \ {m} |-> r[f]] :
         m \in RequiredFields,
         r \in { x \in Records : x.emission_time_ms = 0 /\ x.prompt = "pa" } }
    \cup { [emission_time_ms |-> 0, prompt |-> s.prompt, input_length |-> s.input_length,
            output_length |-> s.output_length, slo_ratio |-> s.slo_ratio,
            strings |-> {f}] :
              s \in Shapes, f \in StringFields }

\* Traces of one or two records, at least one of them malformed.
MalformedTraces ==
    { t \in UNION { [1..k -> Records \cup MalformedRecords] : k \in TraceLengths } :
         \E k \in DOMAIN t : t[k] \in MalformedRecords }

\* req[field] raises KeyError for some field main reads.
LacksField(req) == RequiredFields \ DOMAIN req # {}

\* The value the record holds under the field is a str.
IsString(req, field) == "strings" \in DOMAIN req /\ field \in req.strings

\* --base-ttft and --base-tpot, in the unit of the clock.
Thresholds == {0, 1}

(* ------------------------------- state -------------------------------- *)
VARIABLES
    now,                 \* time.perf_counter(), in ms
    start_time,          \* the module-level start_time (line 12)
    main_start_time,     \* the start_time local to main (line 111)
    mainpc,              \* where main is
    emission_data,       \* the loaded trace (line 100)
    verbose,             \* args.verbose
    base_ttft,           \* args.base_ttft, once line 135 has read it
    base_tpot,           \* args.base_tpot, once line 135 has read it
    tpc,                 \* where each task is
    epoch_read,          \* the value of start_time each task read at line 37
    wake_at,             \* when each task's asyncio.sleep is due
    request_sent_time,   \* each task's request_sent_time (line 41)
    payload,             \* each task's payload (lines 25-35)
    posted,              \* the body of each task's latest POST (line 46)
    session,             \* each task's ClientSession (line 44)
    received,            \* the latest response a task got, and the task
    result,              \* the RequestResult each task returned
    completed,           \* the tasks that returned, in the order they did
    request_results,     \* what gather returned (line 121)
    total_time,          \* line 122
    file,                \* the content of args.output (line 130)
    request_attainment,  \* line 132, 136
    token_attainment,    \* line 133, 137
    summary,             \* the summary lines main printed
    first_tally          \* the tallies of an earlier evaluation of the same results

mainvars == <<start_time, main_start_time, mainpc, emission_data, verbose,
              base_ttft, base_tpot>>
taskvars == <<tpc, epoch_read, wake_at, request_sent_time, payload, posted, session,
              received, result, completed>>
evalvars == <<request_results, total_time, file, request_attainment,
              token_attainment, summary, first_tally>>
vars == <<now, mainvars, taskvars, evalvars>>

N == Len(emission_data)
Tasks == 1..N

(* ------------------------- structs.RequestResult ----------------------- *)
\* The constructor call of lines 75-83.  lifetime_events is an opaque value
\* the program never reads and is left out.
RequestResult(prompt_len, output_len, sent, end, ratio, timestamps) ==
    [prompt_len |-> prompt_len, output_len |-> output_len, sent_at |-> sent,
     completed_at |-> end, slo_ratio |-> ratio, token_timestamps |-> timestamps]

\* req.ftl: the first entry of token_timestamps minus sent_at.
ftl(req) == req.token_timestamps[1] - req.sent_at

(* --------------------------- evaluate_request -------------------------- *)
\* The loop of lines 91-94 from index i on (Python's i, so the pair compared
\* is token_timestamps[i] and token_timestamps[i-1], here entries i+1 and i):
\* 0 on the first delta above the bound, else what request_slo_attained was.
RECURSIVE ScanDeltas(_, _, _, _)
ScanDeltas(ts, i, bound, attained) ==
    IF i >= Len(ts) THEN attained
    ELSE IF ts[i + 1] - ts[i] > bound THEN 0
    ELSE ScanDeltas(ts, i + 1, bound, attained)

\* evaluate_request with the first-token comparison made strict the other
\* way (a latency equal to its threshold fails).
evaluate_request_strict(req, target_ttft, target_tpot) ==
    IF ftl(req) >= target_ttft * req.slo_ratio
    THEN [ret |-> <<0, 0>>, req |-> req]
    ELSE LET a == ScanDeltas(req.token_timestamps, 1, target_tpot * req.slo_ratio, 1)
         IN  [ret |-> <<a, IF a = 1 THEN Len(req.token_timestamps) ELSE 0>>, req |-> req]

\* evaluate_request shifting the timestamps of its argument in place.
evaluate_request_consuming(req, target_ttft, target_tpot) ==
    LET rebased == [req EXCEPT !.token_timestamps =
                       [j \in 1..Len(req.token_timestamps) |->
                           req.token_timestamps[j] + 1]]
    IN  IF ftl(req) > target_ttft * req.slo_ratio
        THEN [ret |-> <<0, 0>>, req |-> rebased]
        ELSE LET a == ScanDeltas(req.token_timestamps, 1, target_tpot * req.slo_ratio, 1)
             IN  [ret |-> <<a, IF a = 1 THEN Len(req.token_timestamps) ELSE 0>>,
                  req |-> rebased]

\* evaluate_request with lines 89 and 96 returning the number of timestamps
\* whether the request attained its SLO or not.
evaluate_request_counting_all(req, target_ttft, target_tpot) ==
    IF ftl(req) > target_ttft * req.slo_ratio
    THEN [ret |-> <<0, Len(req.token_timestamps)>>, req |-> req]
    ELSE LET a == ScanDeltas(req.token_timestamps, 1, target_tpot * req.slo_ratio, 1)
         IN  [ret |-> <<a, Len(req.token_timestamps)>>, req |-> req]

\* Lines 85-96.  ret is the returned pair; req is the argument as the call
\* leaves it (the function only reads it).
evaluate_request(req, target_ttft, target_tpot) ==
    IF ftl(req) > target_ttft * req.slo_ratio
    THEN [ret |-> <<0, 0>>, req |-> req]
    ELSE LET a == ScanDeltas(req.token_timestamps, 1, target_tpot * req.slo_ratio, 1)
         IN  [ret |-> <<a, IF a = 1 THEN Len(req.token_timestamps) ELSE 0>>, req |-> req]

\* The loop of lines 132-137 over results[k..]: the two tallies, and the
\* results as the calls leave them.
RECURSIVE Fold(_, _, _, _, _, _)
Fold(results, k, ttft, tpot, ra, ta) ==
    IF k > Len(results)
    THEN [request_attainment |-> ra, token_attainment |-> ta, results |-> results]
    ELSE LET r == evaluate_request(results[k], ttft, tpot)
         IN  Fold([results EXCEPT ![k] = r.req], k + 1, ttft, tpot,
                  ra + r.ret[1], ta + r.ret[2])

(* ------------------------------- server -------------------------------- *)
\* What a POST can come back with: the per-request ClientTimeout expiring,
\* a connection error, a body json.loads rejects, a JSON value that is not an
\* object, or a JSON object with some of the keys the code looks at.  The
\* replayer never looks into the timestamps, so the server here stamps every
\* token as it answers.  It stamps at least one token; the replayer does not
\* compare the number of timestamps with the max_tokens it asked for, and
\* the server here may stamp one token more than that.
KeySets ==
    { {"error"}, {"error", "text"}, {"error", "text", "timestamps"},
      {"text"}, {"timestamps"}, {"text", "timestamps"} }

Responses(max_tokens) ==
    { [kind |-> k, keys |-> {}, timestamps |-> <<>>] :
         k \in {"timeout", "connection_error", "garbage", "nondict"} }
    \cup { [kind |-> "json", keys |-> ks, timestamps |-> <<>>] :
             ks \in { x \in KeySets : "timestamps" \notin x } }
    \cup { [kind |-> "json", keys |-> ks, timestamps |-> <<now>>] :
             ks \in { x \in KeySets : "timestamps" \in x } }
    \cup { [kind |-> "json", keys |-> ks, timestamps |-> [j \in 1..k |-> now]] :
             ks \in { x \in KeySets : "timestamps" \in x /\ "error" \notin x },
             k \in 2..(max_tokens + 1) }

(* -------------------------------- Init --------------------------------- *)
NoTasks(data, v) == [i \in 1..Len(data) |-> v]

Init ==
    /\ now = PerfOrigin
    /\ start_time = now
    /\ main_start_time = Unset
    /\ mainpc = "start"
    /\ emission_data \in Traces
    /\ verbose \in BOOLEAN
    /\ base_ttft = Unset
    /\ base_tpot = Unset
    /\ tpc = NoTasks(emission_data, "uncreated")
    /\ epoch_read = NoTasks(emission_data, Unset)
    /\ wake_at = NoTasks(emission_data, Unset)
    /\ request_sent_time = NoTasks(emission_data, Unset)
    /\ payload = NoTasks(emission_data, None)
    /\ posted = NoTasks(emission_data, None)
    /\ session = NoTasks(emission_data, NoSession)
    /\ received = None
    /\ result = NoTasks(emission_data, None)
    /\ completed = <<>>
    /\ request_results = <<>>
    /\ total_time = Unset
    /\ file = NoFile
    /\ request_attainment = 0
    /\ token_attainment = 0
    /\ summary = <<>>
    /\ first_tally = None

(* -------------------------------- clock -------------------------------- *)
\* Time passes while the program runs.
Tick ==
    /\ mainpc \notin {"done", "aborted"}
    /\ now < MaxTime
    /\ now' = now + 1
    /\ UNCHANGED <<mainvars, taskvars, evalvars>>

(* --------------------------------- task -------------------------------- *)
\* Lines 25-35; the other fields of the payload are the same in every task.
Payload(prompt, output_length) == [prompt |-> prompt, max_tokens |-> output_length]

\* Line 38 (WaitEarly: the wait one unit short).
WaitEarly(emission_time_ms, elapsed_time_ms) == emission_time_ms - elapsed_time_ms - 1
WaitTime(emission_time_ms, elapsed_time_ms) == emission_time_ms - elapsed_time_ms

\* Line 39 (SleepsOnZero: the comparison made >=).
SleepsOnZero(wait) == wait >= 0
Sleeps(wait) == wait > 0

\* Line 46: the POST of the task's payload.
Post(i, body) ==
    /\ posted' = [posted EXCEPT ![i] = body]
    /\ session' = [session EXCEPT ![i] = SessionOfAttempt(session[i])]

\* Lines 22-46, from the task's first step to its first await: the sleep of
\* line 40 when the wait is positive, else the POST of line 46.  Line 38
\* raises TypeError when emission_time_ms is a str.
TaskStart(i) ==
    /\ mainpc = "gather"
    /\ tpc[i] = "pending"
    /\ LET req == emission_data[i]
           elapsed_time_ms == now - start_time
           wait == WaitTime(req.emission_time_ms, elapsed_time_ms)
       IN  /\ payload' = [payload EXCEPT ![i] = Payload(req.prompt, req.output_length)]
           /\ epoch_read' = [epoch_read EXCEPT ![i] = start_time]
           /\ IF IsString(req, "emission_time_ms")
              THEN /\ tpc' = [tpc EXCEPT ![i] = "raised"]
                   /\ UNCHANGED <<wake_at, request_sent_time, posted, session>>
              ELSE IF Sleeps(wait)
              THEN /\ tpc' = [tpc EXCEPT ![i] = "sleeping"]
                   /\ wake_at' = [wake_at EXCEPT ![i] = now + wait]
                   /\ UNCHANGED <<request_sent_time, posted, session>>
              ELSE /\ tpc' = [tpc EXCEPT ![i] = "posting"]
                   /\ request_sent_time' = [request_sent_time EXCEPT ![i] = now]
                   /\ Post(i, Payload(req.prompt, req.output_length))
                   /\ UNCHANGED wake_at
    /\ UNCHANGED <<now, mainvars, evalvars, received, result, completed>>

\* Lines 40-46: the sleep is over, no earlier than it was due.
Wake(i) ==
    /\ mainpc = "gather"
    /\ tpc[i] = "sleeping"
    /\ now >= wake_at[i]
    /\ tpc' = [tpc EXCEPT ![i] = "posting"]
    /\ request_sent_time' = [request_sent_time EXCEPT ![i] = now]
    /\ Post(i, payload[i])
    /\ UNCHANGED <<now, mainvars, evalvars, epoch_read, wake_at, payload,
                   received, result, completed>>

\* Lines 46-49: the POST raises instead of delivering a body.
PostRaises(resp) == resp.kind \in {"timeout", "connection_error"}

\* Lines 52-57: json.loads raises.
ParseFails(resp) == resp.kind = "garbage"

\* Line 60 raises: output['text'] of a value without that key.
VerbosePrintRaises(v, resp) == v /\ (resp.kind = "nondict" \/ "text" \notin resp.keys)

\* Line 62 (LoopBreaksAlways, LoopBreaksNever: the test left out, the loop
\* without its break).
LoopBreaksAlways(resp) == TRUE
LoopBreaksNever(resp) == FALSE
LoopBreaks(resp) == "error" \notin resp.keys

\* Lines 62-83 raise: a JSON value that is no object fails at line 62, 66 or
\* 81, and an object without "timestamps" fails at line 81.
ResultRaises(resp) == resp.kind = "nondict" \/ "timestamps" \notin resp.keys

\* Receive with the POST of line 46 moved inside the try block of lines
\* 52-57: the bare except catches the timeout, and the loop sends again.
ReceiveRetryingTimeout(i) ==
    /\ mainpc = "gather"
    /\ tpc[i] = "posting"
    /\ \E resp \in Responses(posted[i].max_tokens) :
         /\ received' = [task |-> i, response |-> resp]
         /\ IF (PostRaises(resp) /\ resp.kind # "timeout") \/ (~ParseFails(resp) /\ VerbosePrintRaises(verbose, resp))
            THEN /\ tpc' = [tpc EXCEPT ![i] = "raised"]
                 /\ session' = [session EXCEPT ![i] = CloseSession(session[i])]
                 /\ UNCHANGED <<posted, result, completed>>
            ELSE IF resp.kind = "timeout" \/ ParseFails(resp) \/ ~LoopBreaks(resp)
            THEN /\ Post(i, payload[i])
                 /\ UNCHANGED <<tpc, result, completed>>
            ELSE IF ResultRaises(resp)
            THEN /\ tpc' = [tpc EXCEPT ![i] = "raised"]
                 /\ session' = [session EXCEPT ![i] = CloseSession(session[i])]
                 /\ UNCHANGED <<posted, result, completed>>
            ELSE /\ tpc' = [tpc EXCEPT ![i] = "returned"]
                 /\ result' = [result EXCEPT ![i] =
                       RequestResult(emission_data[i].input_length,
                                     emission_data[i].output_length,
                                     request_sent_time[i], now,
                                     emission_data[i].slo_ratio, resp.timestamps)]
                 /\ completed' = Append(completed, i)
                 /\ session' = [session EXCEPT ![i] = CloseSession(session[i])]
                 /\ UNCHANGED posted
    /\ UNCHANGED <<now, mainvars, evalvars, epoch_read, wake_at,
                   request_sent_time, payload>>

\* Receive with line 41 inside the while loop: request_sent_time is taken
\* again for every attempt.
ReceiveRestamping(i) ==
    /\ mainpc = "gather"
    /\ tpc[i] = "posting"
    /\ \E resp \in Responses(posted[i].max_tokens) :
         /\ received' = [task |-> i, response |-> resp]
         /\ IF PostRaises(resp) \/ (~ParseFails(resp) /\ VerbosePrintRaises(verbose, resp))
            THEN /\ tpc' = [tpc EXCEPT ![i] = "raised"]
                 /\ session' = [session EXCEPT ![i] = CloseSession(session[i])]
                 /\ UNCHANGED <<posted, result, completed, request_sent_time>>
            ELSE IF ParseFails(resp) \/ ~LoopBreaks(resp)
            THEN /\ Post(i, payload[i])
                 /\ request_sent_time' = [request_sent_time EXCEPT ![i] = now]
                 /\ UNCHANGED <<tpc, result, completed>>
            ELSE IF ResultRaises(resp)
            THEN /\ tpc' = [tpc EXCEPT ![i] = "raised"]
                 /\ session' = [session EXCEPT ![i] = CloseSession(session[i])]
                 /\ UNCHANGED <<posted, result, completed, request_sent_time>>
            ELSE /\ tpc' = [tpc EXCEPT ![i] = "returned"]
                 /\ result' = [result EXCEPT ![i] =
                       RequestResult(emission_data[i].input_length,
                                     emission_data[i].output_length,
                                     request_sent_time[i], now,
                                     emission_data[i].slo_ratio, resp.timestamps)]
                 /\ completed' = Append(completed, i)
                 /\ session' = [session EXCEPT ![i] = CloseSession(session[i])]
                 /\ UNCHANGED <<posted, request_sent_time>>
    /\ UNCHANGED <<now, mainvars, evalvars, epoch_read, wake_at, payload>>

\* Lines 46-83, from the response of a POST to the next await (the next
\* POST) or to the end of the task.
Receive(i) ==
    /\ mainpc = "gather"
    /\ tpc[i] = "posting"
    /\ \E resp \in Responses(posted[i].max_tokens) :
         /\ received' = [task |-> i, response |-> resp]
         /\ IF PostRaises(resp) \/ (~ParseFails(resp) /\ VerbosePrintRaises(verbose, resp))
            THEN /\ tpc' = [tpc EXCEPT ![i] = "raised"]
                 /\ session' = [session EXCEPT ![i] = CloseSession(session[i])]
                 /\ UNCHANGED <<posted, result, completed>>
            ELSE IF ParseFails(resp) \/ ~LoopBreaks(resp)
            THEN /\ Post(i, payload[i])
                 /\ UNCHANGED <<tpc, result, completed>>
            ELSE IF ResultRaises(resp)
            THEN /\ tpc' = [tpc EXCEPT ![i] = "raised"]
                 /\ session' = [session EXCEPT ![i] = CloseSession(session[i])]
                 /\ UNCHANGED <<posted, result, completed>>
            ELSE /\ tpc' = [tpc EXCEPT ![i] = "returned"]
                 /\ result' = [result EXCEPT ![i] =
                       RequestResult(emission_data[i].input_length,
                                     emission_data[i].output_length,
                                     request_sent_time[i], now,
                                     emission_data[i].slo_ratio, resp.timestamps)]
                 /\ completed' = Append(completed, i)
                 /\ session' = [session EXCEPT ![i] = CloseSession(session[i])]
                 /\ UNCHANGED posted
    /\ UNCHANGED <<now, mainvars, evalvars, epoch_read, wake_at,
                   request_sent_time, payload>>

(* --------------------------------- main -------------------------------- *)
MainStep(from, to) ==
    /\ mainpc = from
    /\ mainpc' = to
    /\ UNCHANGED <<start_time, emission_data, verbose>>

\* Lines 99-109: the trace file is read.
LoadDataset ==
    /\ MainStep("start", "loaded")
    /\ UNCHANGED <<now, main_start_time, base_ttft, base_tpot, taskvars, evalvars>>

\* Line 111: main has no `global start_time`, so the name it binds is a
\* local of main; the module-level start_time keeps its value.
CaptureEpoch ==
    /\ MainStep("loaded", "creating")
    /\ main_start_time' = now
    /\ UNCHANGED <<now, base_ttft, base_tpot, taskvars, evalvars>>

\* Lines 113-119, one iteration: create_task schedules the task of the next
\* record; the task does not run before main awaits.  A record without a
\* key that lines 114-118 read raises KeyError before line 119: main ends
\* with it, and asyncio.run (line 183) cancels the tasks created so far,
\* none of which has run.
CreateTask ==
    /\ \E i \in Tasks :
         /\ tpc[i] = "uncreated"
         /\ \A j \in 1..(i - 1) : tpc[j] # "uncreated"
         /\ IF LacksField(emission_data[i])
            THEN /\ MainStep("creating", "aborted")
                 /\ tpc' = [k \in Tasks |->
                              IF tpc[k] = "pending" THEN "cancelled" ELSE tpc[k]]
            ELSE /\ MainStep("creating", "creating")
                 /\ tpc' = [tpc EXCEPT ![i] = "pending"]
    /\ UNCHANGED <<now, main_start_time, base_ttft, base_tpot, evalvars, epoch_read, wake_at,
                   request_sent_time, payload, posted, session, received,
                   result, completed>>

\* AwaitGather with the await of line 121 inside the loop of line 113: main
\* awaits as soon as one task is created.
AwaitGatherInLoop ==
    /\ \E i \in Tasks : tpc[i] # "uncreated"
    /\ MainStep("creating", "gather")
    /\ UNCHANGED <<now, main_start_time, base_ttft, base_tpot, taskvars, evalvars>>

\* Line 121: main awaits gather, and the tasks get to run.
AwaitGather ==
    /\ \A i \in Tasks : tpc[i] # "uncreated"
    /\ MainStep("creating", "gather")
    /\ UNCHANGED <<now, main_start_time, base_ttft, base_tpot, taskvars, evalvars>>

\* gather is done when every task has returned (GatherReadyLenient: as with
\* return_exceptions=True, when every task has returned or raised).
GatherReadyLenient == \A i \in Tasks : tpc[i] \in {"returned", "raised"}
GatherReady == \A i \in Tasks : tpc[i] = "returned"

\* The list gather returns: the tasks' results in the order of its arguments
\* (GatherResultsAsCompleted: in the order the tasks completed).
GatherResultsAsCompleted == [k \in 1..Len(completed) |-> result[completed[k]]]
GatherResults == [i \in Tasks |-> result[i]]

\* Lines 121-123: every task returned.
GatherReturn ==
    /\ GatherReady
    /\ MainStep("gather", "gathered")
    /\ request_results' = GatherResults
    /\ total_time' = now - main_start_time
    /\ UNCHANGED <<now, main_start_time, base_ttft, base_tpot, taskvars, file, request_attainment,
                   token_attainment, summary, first_tally>>

\* Line 121 raises the exception of a task that raised, main ends with it,
\* and asyncio.run (line 183) cancels the tasks that are not finished.
GatherRaise ==
    /\ \E i \in Tasks : tpc[i] = "raised"
    /\ MainStep("gather", "aborted")
    /\ tpc' = [i \in Tasks |->
                 IF tpc[i] \in {"pending", "sleeping", "posting"}
                 THEN "cancelled" ELSE tpc[i]]
    /\ session' = [i \in Tasks |-> CloseSession(session[i])]
    /\ UNCHANGED <<now, main_start_time, base_ttft, base_tpot, evalvars, epoch_read, wake_at,
                   request_sent_time, payload, posted, received,
                   result, completed>>

\* Lines 125-127.
PrintThroughput ==
    /\ MainStep("gathered", "printed")
    /\ summary' = summary \o <<"total_time", "throughput">>
    /\ UNCHANGED <<now, main_start_time, base_ttft, base_tpot, taskvars, request_results, total_time,
                   file, request_attainment, token_attainment, first_tally>>

\* Lines 129-130.
WriteResults ==
    /\ MainStep("printed", "written")
    /\ file' = Dumped(request_results)
    /\ UNCHANGED <<now, main_start_time, base_ttft, base_tpot, taskvars, request_results, total_time,
                   request_attainment, token_attainment, summary, first_tally>>

\* Lines 132-137, with the thresholds the command line gave.
Evaluate ==
    /\ MainStep("written", "evaluated")
    /\ \E ttft \in Thresholds, tpot \in Thresholds :
         LET t == Fold(request_results, 1, ttft, tpot, 0, 0)
         IN  /\ base_ttft' = ttft
             /\ base_tpot' = tpot
             /\ request_attainment' = t.request_attainment
             /\ token_attainment' = t.token_attainment
             /\ request_results' = t.results
    /\ UNCHANGED <<now, main_start_time, taskvars, total_time, file, summary,
                   first_tally>>

\* Line 142: sum(req.output_len for req in request_results), from index k on.
RECURSIVE SumOutputLen(_, _)
SumOutputLen(results, k) ==
    IF k > Len(results) THEN 0
    ELSE results[k].output_len + SumOutputLen(results, k + 1)

\* Lines 139-142; line 139 divides by total_requests.
PrintAttainment ==
    /\ mainpc = "evaluated"
    /\ IF Len(request_results) = 0
       THEN /\ MainStep("evaluated", "aborted")
            /\ UNCHANGED summary
       ELSE /\ MainStep("evaluated", "done")
            /\ summary' = summary \o <<"request_attainment", "request_fraction",
                                       "token_goodput", "token_fraction">>
    /\ UNCHANGED <<now, main_start_time, base_ttft, base_tpot, taskvars, request_results, total_time,
                   file, request_attainment, token_attainment, first_tally>>

Next ==
    \/ Tick
    \/ LoadDataset
    \/ CaptureEpoch
    \/ CreateTask
    \/ AwaitGather
    \/ \E i \in Tasks : TaskStart(i)
    \/ \E i \in Tasks : Wake(i)
    \/ \E i \in Tasks : Receive(i)
    \/ GatherReturn
    \/ GatherRaise
    \/ PrintThroughput
    \/ WriteResults
    \/ Evaluate
    \/ PrintAttainment

Spec == Init /\ [][Next]_vars

(* --------------------------- fair scheduling --------------------------- *)
\* The event loop runs every task that is ready and main when it is ready,
\* the clock advances, and every POST ends: the server answers or the
\* ClientTimeout of line 43 expires.
TaskIds == 1..2

\* Whether a task terminates does not depend on what its record carries
\* besides the emission time: the traces here are made of one kind of record.
FairInit ==
    /\ Init
    /\ \A k \in 1..Len(emission_data) : emission_data[k].prompt = "pa"

FairSpec ==
    /\ FairInit
    /\ [][Next]_vars
    /\ WF_vars(Tick)
    /\ WF_vars(LoadDataset)
    /\ WF_vars(CaptureEpoch)
    /\ WF_vars(CreateTask)
    /\ WF_vars(AwaitGather)
    /\ WF_vars(GatherReturn)
    /\ WF_vars(GatherRaise)
    /\ WF_vars(PrintThroughput)
    /\ WF_vars(WriteResults)
    /\ WF_vars(Evaluate)
    /\ WF_vars(PrintAttainment)
    /\ \A i \in TaskIds :
          /\ WF_vars(i \in Tasks /\ TaskStart(i))
          /\ WF_vars(i \in Tasks /\ Wake(i))
          /\ WF_vars(i \in Tasks /\ Receive(i))

\* A body that fails to parse, or a JSON object with an "error" key.
IsBad(resp) == resp.kind = "garbage" \/ (resp.kind = "json" /\ "error" \in resp.keys)
\* A parsed JSON object without an "error" key that carries timestamps.
IsGood(resp) ==
    resp.kind = "json" /\ "error" \notin resp.keys /\ "timestamps" \in resp.keys

Emission(i) == emission_data[i].emission_time_ms
Finished(i) == tpc[i] \in {"returned", "raised", "cancelled"}

(* ------------------------------ C1 ------------------------------------ *)
\* C1: no request is sent before its scheduled emission time: a task that
\* sleeps is due at epoch + emission_time_ms and has not sent, and every
\* first send is at or after epoch + emission_time_ms, the epoch being the
\* start_time the task read when it computed its wait.
C1_NeverSentEarly ==
    \A i \in Tasks :
        /\ tpc[i] = "sleeping" =>
              /\ request_sent_time[i] = Unset
              /\ wake_at[i] = epoch_read[i] + Emission(i)
        /\ request_sent_time[i] # Unset =>
              request_sent_time[i] >= epoch_read[i] + Emission(i)

\* A task that slept (its wait was positive) has sent its request.
C1_Witness ==
    \E i \in Tasks :
        /\ wake_at[i] # Unset
        /\ tpc[i] = "posting"
        /\ request_sent_time[i] = epoch_read[i] + Emission(i)

(* ------------------------------ C2 ------------------------------------ *)
\* C2: a task has a RequestResult only if it returned, and the response that
\* made it return was a parsed object without "error" whose timestamps are
\* the result's token_timestamps; after a response that fails to parse or
\* carries "error" the task has no RequestResult.
C2_ResultOnlyFromGoodResponse ==
    /\ \A i \in Tasks : result[i] # None <=> tpc[i] = "returned"
    /\ received # None =>
          LET i == received.task
              resp == received.response
          IN  /\ tpc[i] = "returned" =>
                    /\ IsGood(resp)
                    /\ result[i].token_timestamps = resp.timestamps
              /\ IsBad(resp) => result[i] = None

\* One task returned a result of two tokens from a good response after the
\* other one got a bad response and is sending again.
C2_Witness ==
    /\ received # None
    /\ tpc[received.task] = "returned"
    /\ Len(result[received.task].token_timestamps) = 2
    /\ \E j \in Tasks : j # received.task /\ tpc[j] = "posting"

(* ------------------------------ C3 ------------------------------------ *)
\* C3 as claimed: after a response that fails to parse or carries "error",
\* whatever the verbose flag, the task has not failed and has no result: it
\* has sent its unchanged payload again (or was cancelled while doing so).
C3_BadResponseIsResent ==
    (received # None /\ IsBad(received.response)) =>
        LET i == received.task
        IN  /\ tpc[i] \in {"posting", "cancelled"}
            /\ posted[i] = payload[i]
            /\ result[i] = None

(* ------------------------------ C4 ------------------------------------ *)
\* C4: the results file is written and summary lines are printed only when
\* every task has returned a RequestResult; once a task has failed, there is
\* neither a file nor a summary line and main is awaiting gather or aborted.
C4_OutputOnlyAfterJoin ==
    /\ (file.written \/ summary # <<>>) =>
          \A i \in Tasks : tpc[i] = "returned" /\ result[i] # None
    /\ (\E i \in Tasks : tpc[i] = "raised") =>
          /\ ~file.written
          /\ summary = <<>>
          /\ mainpc \in {"gather", "aborted"}

\* A run of two tasks wrote the file and printed every summary line.
C4_Witness ==
    /\ mainpc = "done"
    /\ N = 2
    /\ file.written
    /\ Len(summary) = 6

(* ------------------------------ C7 ------------------------------------ *)
\* C7: the persisted array holds one object per record, in trace order: its
\* i-th object is the RequestResult task i returned and carries record i's
\* input_length, output_length and slo_ratio.
C7_ResultsInTraceOrder ==
    file.written =>
        /\ Len(file.content) = N
        /\ \A i \in Tasks :
              /\ file.content[i] = result[i]
              /\ file.content[i].prompt_len = emission_data[i].input_length
              /\ file.content[i].output_len = emission_data[i].output_length
              /\ file.content[i].slo_ratio = emission_data[i].slo_ratio

\* The file is written after the second task completed before the first,
\* the two records being different.
C7_Witness ==
    /\ file.written
    /\ completed = <<2, 1>>
    /\ emission_data[1].input_length # emission_data[2].input_length

(* ------------------------------ C8 ------------------------------------ *)
\* C8: a task that takes its first step when emission_time_ms minus the time
\* elapsed since the epoch is zero or negative does not sleep: in that same
\* step it takes request_sent_time and posts, and no other task's sleep is
\* changed.
C8_NoWaitWhenDue ==
    [][\A i \in Tasks :
          (/\ tpc[i] = "pending"
           /\ tpc'[i] \notin {"pending", "cancelled"}
           /\ Emission(i) - (now - start_time) <= 0)
          => /\ tpc'[i] = "posting"
             /\ request_sent_time'[i] = now
             /\ wake_at'[i] = Unset
             /\ \A j \in Tasks \ {i} :
                   wake_at'[j] = wake_at[j] /\ tpc'[j] = tpc[j]]_vars

\* A task is posting that never slept and sent after its emission time.
C8_Witness ==
    \E i \in Tasks :
        /\ tpc[i] = "posting"
        /\ wake_at[i] = Unset
        /\ request_sent_time[i] > epoch_read[i] + Emission(i)

(* ------------------------------ C10 ----------------------------------- *)
\* C10 as claimed: the epoch a task reads to compute its wait is the
\* timestamp main captured at line 111, from which total_time is measured.
C10_SingleEpoch ==
    \A i \in Tasks : epoch_read[i] # Unset => epoch_read[i] = main_start_time

(* ------------------------------ C5 ------------------------------------ *)
\* C5 as claimed: under fair scheduling every task eventually terminates and
\* the run finishes, whatever the server answers.
C5_EveryTaskTerminates ==
    <>(mainpc \in {"done", "aborted"} /\ \A i \in Tasks : Finished(i))

\* C5 amended: under fair scheduling every task eventually returns, fails or
\* is cancelled, unless it is answered again and again, without end, with a
\* body that fails to parse or carries "error".
C5_TerminatesUnlessBadForever ==
    \A i \in TaskIds :
        \/ <>[](i \in Tasks => Finished(i))
        \/ []<><<i \in Tasks /\ Receive(i) /\ IsBad(received'.response)>>_vars

\* A task got a bad response and is sending again; nothing has failed.
C5_Witness ==
    /\ received # None
    /\ IsBad(received.response)
    /\ tpc[received.task] = "posting"
    /\ \A j \in Tasks : tpc[j] # "raised"

(* ----------------- the evaluator over persisted results ---------------- *)
\* Persisted RequestResults: sent at 1, the first token after a latency of
\* 0..MaxGap, every later token 0..MaxGap after the one before, 1..MaxTokens
\* tokens.
RECURSIVE Stamps(_, _)
Stamps(first, gaps) ==
    IF Len(gaps) = 0 THEN <<first>>
    ELSE <<first>> \o Stamps(first + gaps[1], Tail(gaps))

SloRatios == {1, 2}

EvalResults ==
    { RequestResult(1, Len(gaps) + 1, 1, 1 + latency, ratio,
                    Stamps(1 + latency, gaps)) :
        latency \in 0..MaxGap,
        gaps \in UNION { [1..k -> 0..MaxGap] : k \in 0..(MaxTokens - 1) },
        ratio \in SloRatios }

\* How many results the persisted file holds.
EvalSizes == {1, 2}

\* The state in which lines 129-130 left a run of no matter which results.
EvalInit ==
    /\ now = PerfOrigin
    /\ start_time = now
    /\ main_start_time = now
    /\ mainpc = "written"
    /\ emission_data = <<>>
    /\ verbose = FALSE
    /\ base_ttft = Unset
    /\ base_tpot = Unset
    /\ tpc = <<>>
    /\ epoch_read = <<>>
    /\ wake_at = <<>>
    /\ request_sent_time = <<>>
    /\ payload = <<>>
    /\ posted = <<>>
    /\ session = <<>>
    /\ received = None
    /\ result = <<>>
    /\ completed = <<>>
    /\ request_results \in UNION { [1..k -> EvalResults] : k \in EvalSizes }
    /\ total_time = 1
    /\ file = Dumped(request_results)
    /\ request_attainment = 0
    /\ token_attainment = 0
    /\ summary = <<"total_time", "throughput">>
    /\ first_tally = None

\* Lines 132-137 once more, over the results as the first evaluation left
\* them and with the same thresholds.
Reevaluate ==
    /\ MainStep("evaluated", "reevaluated")
    /\ LET t == Fold(request_results, 1, base_ttft, base_tpot, 0, 0)
       IN  /\ first_tally' = <<request_attainment, token_attainment>>
           /\ request_attainment' = t.request_attainment
           /\ token_attainment' = t.token_attainment
           /\ request_results' = t.results
    /\ UNCHANGED <<now, main_start_time, base_ttft, base_tpot, taskvars,
                   total_time, file, summary>>

EvalNext ==
    \/ Evaluate
    \/ Reevaluate

SpecEval == EvalInit /\ [][EvalNext]_vars

(* ------------------------------ C6 ------------------------------------ *)
\* The rule of the SLO evaluator, stated on its own: not attained when the
\* first-token latency exceeds target_ttft * slo_ratio or when some delta
\* between consecutive timestamps exceeds target_tpot * slo_ratio, else
\* attained with every token counted.
SloRule(req, target_ttft, target_tpot) ==
    LET ts == req.token_timestamps
    IN  IF ts[1] - req.sent_at > target_ttft * req.slo_ratio THEN <<0, 0>>
        ELSE IF \E j \in 1..(Len(ts) - 1) :
                    ts[j + 1] - ts[j] > target_tpot * req.slo_ratio
             THEN <<0, 0>>
             ELSE <<1, Len(ts)>>

\* C6: for every RequestResult evaluated and the thresholds it was evaluated
\* with, evaluate_request returns what the rule says; a latency or delta
\* equal to its threshold is within bound, and a single-token result is
\* attained whenever its first-token check passes.
C6_EvaluateMatchesRule ==
    mainpc = "evaluated" =>
      \A k \in 1..Len(file.content) :
        LET req == file.content[k]
            ts == req.token_timestamps
            ret == evaluate_request(req, base_ttft, base_tpot).ret
        IN  /\ ret = SloRule(req, base_ttft, base_tpot)
            /\ (Len(ts) = 1 /\ ts[1] - req.sent_at <= base_ttft * req.slo_ratio)
                  => ret = <<1, 1>>
            /\ (/\ ts[1] - req.sent_at = base_ttft * req.slo_ratio
                /\ \A j \in 1..(Len(ts) - 1) :
                      ts[j + 1] - ts[j] = base_tpot * req.slo_ratio)
                  => ret = <<1, Len(ts)>>

\* Evaluated: an attained result of several tokens whose latency and deltas
\* all equal their (positive) thresholds, beside a result that is not attained.
C6_Witness ==
    /\ mainpc = "evaluated"
    /\ base_ttft > 0
    /\ base_tpot > 0
    /\ request_attainment = 1
    /\ Len(file.content) = 2
    /\ \E k \in 1..Len(file.content) :
          LET req == file.content[k]
              ts == req.token_timestamps
          IN  /\ Len(ts) = MaxTokens
              /\ token_attainment = Len(ts)
              /\ ts[1] - req.sent_at = base_ttft * req.slo_ratio
              /\ \A j \in 1..(Len(ts) - 1) :
                    ts[j + 1] - ts[j] = base_tpot * req.slo_ratio

(* ------------------------------ C9 ------------------------------------ *)
\* C9: evaluating the same results a second time with the same thresholds
\* gives the same two tallies as the first time, and the evaluation leaves
\* the results as they were persisted.
C9_EvaluationIdempotent ==
    /\ mainpc = "reevaluated" =>
          first_tally = <<request_attainment, token_attainment>>
    /\ mainpc \in {"evaluated", "reevaluated"} => request_results = file.content

\* Evaluated twice: two results, one attained and one not.
C9_Witness ==
    /\ mainpc = "reevaluated"
    /\ Len(file.content) = 2
    /\ first_tally[1] = 1
    /\ first_tally[2] > 1

(* ------------------------------ C11 ----------------------------------- *)
\* C11 as claimed: no task is ever cancelled, and when the run has finished
\* (normally or with an error) every task has returned a RequestResult or
\* has failed.
C11_RunWaitsForEveryTask ==
    /\ \A i \in Tasks : tpc[i] # "cancelled"
    /\ mainpc \in {"done", "aborted"} =>
          \A i \in Tasks : tpc[i] \in {"returned", "raised"}

(* ------------------------------ C12 ----------------------------------- *)
\* C12: the step in which a task's attempt hits the timeout aborts the task
\* without a send and without a RequestResult, and a task that has failed
\* stays failed for ever: it never sends again and never has a RequestResult.
C12_TimeoutNotRetried ==
    [][\A i \in Tasks :
          /\ (/\ tpc[i] = "posting"
              /\ received' # None
              /\ received'.task = i
              /\ received'.response.kind = "timeout")
             => /\ tpc'[i] = "raised"
                /\ result'[i] = None
          /\ tpc[i] = "raised"
             => /\ tpc'[i] = "raised"
                /\ posted'[i] = posted[i]
                /\ result[i] = None
                /\ result'[i] = None]_vars

\* A task's attempt hit the timeout and the task has failed, while the other
\* task is still waiting for its response.
C12_Witness ==
    /\ received # None
    /\ received.response.kind = "timeout"
    /\ tpc[received.task] = "raised"
    /\ posted[received.task] # None
    /\ \E j \in Tasks : tpc[j] = "posting"

(* ------------------------------ C13 ----------------------------------- *)
\* C13 as claimed: after a send that failed with a connection error the task
\* has not failed and has no result: it has sent its unchanged payload again
\* (or was cancelled while doing so), as after an application-level error.
C13_ConnectionErrorIsResent ==
    (received # None /\ received.response.kind = "connection_error") =>
        LET i == received.task
        IN  /\ tpc[i] \in {"posting", "cancelled"}
            /\ posted[i] = payload[i]
            /\ result[i] = None

(* --------------------------- malformed traces -------------------------- *)
\* The program started on a trace file with a malformed record.
MalformedInit ==
    /\ now = PerfOrigin
    /\ start_time = now
    /\ main_start_time = Unset
    /\ mainpc = "start"
    /\ emission_data \in MalformedTraces
    /\ verbose \in BOOLEAN
    /\ base_ttft = Unset
    /\ base_tpot = Unset
    /\ tpc = NoTasks(emission_data, "uncreated")
    /\ epoch_read = NoTasks(emission_data, Unset)
    /\ wake_at = NoTasks(emission_data, Unset)
    /\ request_sent_time = NoTasks(emission_data, Unset)
    /\ payload = NoTasks(emission_data, None)
    /\ posted = NoTasks(emission_data, None)
    /\ session = NoTasks(emission_data, NoSession)
    /\ received = None
    /\ result = NoTasks(emission_data, None)
    /\ completed = <<>>
    /\ request_results = <<>>
    /\ total_time = Unset
    /\ file = NoFile
    /\ request_attainment = 0
    /\ token_attainment = 0
    /\ summary = <<>>
    /\ first_tally = None

SpecMalformed == MalformedInit /\ [][Next]_vars

(* ------------------------------ C14 ----------------------------------- *)
\* C14 as claimed: when some record of the trace lacks a required field or
\* holds a string where a number is required, no task, the tasks of the
\* well-formed records before it included, has sent a request, and the run
\* gets no further than awaiting its tasks.
C14_MalformedTraceSendsNothing ==
    (\E k \in Tasks :
        LacksField(emission_data[k]) \/ "strings" \in DOMAIN emission_data[k])
    => /\ \A i \in Tasks : posted[i] = None
       /\ mainpc \in {"start", "loaded", "creating", "gather", "aborted"}

(* ------------------------------ C15 ----------------------------------- *)
\* C15: no task has taken a step while a task is not yet created; while
\* main awaits its tasks, a task that has not started can start and a task
\* whose sleep is due can send, whatever the other tasks are doing (there is
\* no cap); and all the requests can be in flight at once (the witness).
C15_AllLaunchedUpFront ==
    /\ (\E i \in Tasks : tpc[i] \notin {"uncreated", "pending"}) =>
          /\ mainpc \notin {"start", "loaded", "creating"}
          /\ \A j \in Tasks : tpc[j] # "uncreated"
    /\ mainpc = "gather" =>
          \A i \in Tasks :
              /\ tpc[i] = "pending" => ENABLED TaskStart(i)
              /\ (tpc[i] = "sleeping" /\ now >= wake_at[i]) => ENABLED Wake(i)

\* Both requests of a trace of two records are in flight at the same time.
C15_Witness ==
    /\ N = 2
    /\ mainpc = "gather"
    /\ \A i \in Tasks : tpc[i] = "posting" /\ posted[i] # None

(* ------------------------------ C16 ----------------------------------- *)
\* C16 as claimed: every send, each resend after an error included, is made
\* on a session acquired for that send: in the step in which a task gets a
\* response and sends again, it enters a new session.
C16_SessionPerSend ==
    [][\A i \in Tasks :
          (/\ received' # None
           /\ received' # received
           /\ received'.task = i
           /\ tpc'[i] = "posting")
          => /\ session'[i].open
             /\ session'[i].acquired = session[i].acquired + 1]_vars

\* C16 amended: sessions are scoped per task.  A task enters at most one
\* session: it has entered it exactly when it has sent, it is inside it
\* exactly while it has an attempt in flight (the resends are made on that
\* same session), and it has left it once the task has returned, failed or
\* been cancelled.  The session is the task's own.
C16_SessionPerTask ==
    \A i \in Tasks :
        /\ session[i].acquired <= 1
        /\ session[i].open <=> tpc[i] = "posting"
        /\ session[i].acquired = 1 <=> posted[i] # None

\* A task got a bad response and has sent again on the one session it
\* entered, after the other task returned and left its session.
C16_Witness ==
    /\ received # None
    /\ IsBad(received.response)
    /\ tpc[received.task] = "posting"
    /\ session[received.task] = OpenSession(NoSession)
    /\ \E j \in Tasks : tpc[j] = "returned" /\ session[j] = CloseSession(OpenSession(NoSession))

(* ------------------------------ C17 ----------------------------------- *)
\* C17: a task takes request_sent_time in the step of its first attempt,
\* after its wait, and never again; every response it gets, the ones it
\* resends after included, comes at or after that time; the RequestResult
\* carries it as sent_at and the time of the step that got the successful
\* response as completed_at, so sent_at <= completed_at; and the clock never
\* goes back, so the interval covers every attempt before the last.
C17_SentOnceCompletedLast ==
    [][/\ now' >= now
       /\ \A i \in Tasks :
            /\ request_sent_time[i] # Unset =>
                  /\ request_sent_time'[i] = request_sent_time[i]
                  /\ request_sent_time[i] <= now
            /\ (request_sent_time[i] = Unset /\ request_sent_time'[i] # Unset) =>
                  /\ tpc[i] \in {"pending", "sleeping"}
                  /\ posted[i] = None
                  /\ tpc'[i] = "posting"
                  /\ request_sent_time'[i] = now
            /\ tpc'[i] \in {"posting", "returned"} => request_sent_time'[i] # Unset
            /\ tpc'[i] \in {"pending", "sleeping"} => request_sent_time'[i] = Unset
            /\ (result[i] = None /\ result'[i] # None) =>
                  /\ result'[i].sent_at = request_sent_time[i]
                  /\ result'[i].completed_at = now
                  /\ result'[i].sent_at <= result'[i].completed_at]_vars

\* A task that got a bad response some time after it sent has sent again,
\* and the other task has returned a result completed after it was sent.
C17_Witness ==
    /\ received # None
    /\ IsBad(received.response)
    /\ tpc[received.task] = "posting"
    /\ request_sent_time[received.task] < now
    /\ \E j \in Tasks :
          /\ result[j] # None
          /\ result[j].sent_at < result[j].completed_at

(* ------------------------------ C18 ----------------------------------- *)
\* The number of token timestamps the results carry, from index k on.
RECURSIVE SumTimestamps(_, _)
SumTimestamps(results, k) ==
    IF k > Len(results) THEN 0
    ELSE Len(results[k].token_timestamps) + SumTimestamps(results, k + 1)

\* C18 as claimed: after the fold, whatever the server returned, the request
\* tally is between 0 and the number of requests, the token tally is between
\* 0 and the sum of the results' output lengths, and a result that
\* contributes tokens contributes 1 to the request tally.
C18_TalliesWithinTotals ==
    mainpc \in {"evaluated", "done"} =>
        /\ 0 <= request_attainment
        /\ request_attainment <= Len(request_results)
        /\ 0 <= token_attainment
        /\ token_attainment <= SumOutputLen(request_results, 1)
        /\ \A k \in 1..Len(request_results) :
              LET ret == evaluate_request(request_results[k], base_ttft, base_tpot).ret
              IN  ret[2] > 0 => ret[1] = 1

\* C18 amended: the token tally is between 0 and the number of token
\* timestamps the results carry; it is within the sum of the output lengths
\* when no response carried more timestamps than the max_tokens requested.
\* The rest as claimed.
C18_TalliesWithinReturned ==
    mainpc \in {"evaluated", "done"} =>
        /\ 0 <= request_attainment
        /\ request_attainment <= Len(request_results)
        /\ 0 <= token_attainment
        /\ token_attainment <= SumTimestamps(request_results, 1)
        /\ (\A k \in 1..Len(request_results) :
               Len(request_results[k].token_timestamps) <= request_results[k].output_len)
           => token_attainment <= SumOutputLen(request_results, 1)
        /\ \A k \in 1..Len(request_results) :
              LET ret == evaluate_request(request_results[k], base_ttft, base_tpot).ret
              IN  /\ ret[1] \in {0, 1}
                  /\ ret[2] > 0 => ret[1] = 1
                  /\ ret[1] = 0 => ret[2] = 0

\* Two results were folded: one attained, whose response carried more
\* timestamps than its max_tokens, and one not attained.
C18_Witness ==
    /\ mainpc = "evaluated"
    /\ Len(request_results) = 2
    /\ request_attainment = 1
    /\ \E k \in 1..Len(request_results) :
          /\ Len(request_results[k].token_timestamps) > request_results[k].output_len
          /\ token_attainment = Len(request_results[k].token_timestamps)

(* ------------------------------ C19 ----------------------------------- *)
\* C19 as claimed: a run in which every task succeeded does not fail, for a
\* trace of any length, the empty one included: the run is aborted only if
\* some task did not return, and once main is done the results file is
\* written and every summary line is printed.
C19_SuccessPrintsSummary ==
    /\ mainpc = "aborted" => \E i \in Tasks : tpc[i] # "returned"
    /\ mainpc = "done" =>
          /\ file.written
          /\ summary = <<"total_time", "throughput", "request_attainment",
                         "request_fraction", "token_goodput", "token_fraction">>

====
